---------------------------- MODULE Spec2Model ----------------------------
(***************************************************************************)
(* Budget Buddy (src/budget_buddy.py): the per-month JSON store, the       *)
(* normalisation done by load_month_data, the totals, the yearly           *)
(* aggregation, and the Streamlit script run (one run = one action).       *)
(*                                                                         *)
(* Python values are modelled as tagged records [t, v, s] (scalars) and    *)
(* [t, items] (lists); a dict is a function from its keys.  Amounts are    *)
(* whole numbers of currency units; NaN and infinities are not modelled.   *)
(* A JSON document is a separate tree of values tagged by j; json.dump and *)
(* json.load convert between the two.                                      *)
(***************************************************************************)
EXTENDS Integers, Sequences, FiniteSets, TLC

\* ------------------------------------------------------------------ bounds
\* Largest amount a generated raw value or an edit carries.
MaxAmt == 2
\* Longest line-item list among the generated raw records.
MaxItems == 2

\* ----------------------------------------------------------- Python values
PyNone == [t |-> "NoneType", v |-> 0, s |-> ""]
PyFloat(n) == [t |-> "float", v |-> n, s |-> ""]
PyInt(n) == [t |-> "int", v |-> n, s |-> ""]
PyStr(str) == [t |-> "str", v |-> 0, s |-> str]
PyBool(b) == [t |-> "bool", v |-> IF b THEN 1 ELSE 0, s |-> ""]
PyList(seq) == [t |-> "list", items |-> seq]
\* The outcome of an expression that raises exception e.
Raised(e) == [t |-> "raise", v |-> 0, s |-> e]

IsRaised(x) == "t" \in DOMAIN x /\ x.t = "raise"
\* A dict is a function from keys; every other value carries its type tag t.
IsDict(x) == "t" \notin DOMAIN x

\* Python truth value testing, as used by `or` and bool().
Truthy(x) ==
    IF IsDict(x) THEN DOMAIN x # {}
    ELSE CASE x.t = "NoneType" -> FALSE
           [] x.t \in {"float", "int", "bool"} -> x.v # 0
           [] x.t = "str" -> x.s # ""
           [] x.t = "list" -> Len(x.items) > 0
           [] OTHER -> TRUE

\* a or b
PyOr(a, b) == IF Truthy(a) THEN a ELSE b

\* x.get(k, d)
Get(x, k, d) == IF k \in DOMAIN x THEN x[k] ELSE d

\* The decimal literals float() is given in this model: "0", "1", ...
IsNumeral(str) == \E n \in 0..(MaxAmt + 1) : ToString(n) = str
NumeralValue(str) == CHOOSE n \in 0..(MaxAmt + 1) : ToString(n) = str

\* float(x): numbers and bools convert, a string is parsed or raises
\* ValueError, anything else raises TypeError.
ToFloat(x) ==
    IF IsDict(x) THEN Raised("TypeError")
    ELSE CASE x.t \in {"float", "int", "bool"} -> PyFloat(x.v)
           [] x.t = "str" -> IF IsNumeral(x.s) THEN PyFloat(NumeralValue(x.s))
                             ELSE Raised("ValueError")
           [] OTHER -> Raised("TypeError")

\* float(x.get(k, 0.0) or 0.0)
FloatField(x, k) == ToFloat(PyOr(Get(x, k, PyFloat(0)), PyFloat(0)))

\* ---------------------------------------------------------------- storage
\* One month key per calendar month the model visits.
Keys == {"2024-01", "2024-02", "2025-01"}
YearOf(k) == IF k \in {"2024-01", "2024-02"} THEN 2024 ELSE 2025
\* f"{year}-" is a prefix of month key k (both years have four digits).
StartsWithYear(k, year) == YearOf(k) = year

\* A file name is the sequence of its parts; get_data_file(month_ym).
get_data_file(month_ym) == <<"budget_", month_ym, ".json">>

default_month_data ==
    [rollover |-> PyFloat(0),
     debt |-> PyFloat(0),
     income_items |-> PyList(<<[name |-> PyStr("Paycheck"), amount |-> PyFloat(0)]>>),
     bill_items |-> PyList(<<
        [name |-> PyStr("Rent/Mortgage"), amount |-> PyFloat(0), paid |-> PyBool(FALSE)],
        [name |-> PyStr("Utilities"), amount |-> PyFloat(0), paid |-> PyBool(FALSE)],
        [name |-> PyStr("Internet"), amount |-> PyFloat(0), paid |-> PyBool(FALSE)]>>),
     expense_items |-> PyList(<<
        [name |-> PyStr("Groceries"), spent |-> PyFloat(0)],
        [name |-> PyStr("Dining Out"), spent |-> PyFloat(0)],
        [name |-> PyStr("Transportation"), spent |-> PyFloat(0)]>>),
     savings_items |-> PyList(<<
        [name |-> PyStr("Emergency Fund"), saved |-> PyFloat(0)],
        [name |-> PyStr("Retirement"), saved |-> PyFloat(0)]>>)]

\* ------------------------------------------------------------------- JSON
\* json.dump of a scalar.
DumpScalar(x) ==
    CASE x.t = "NoneType" -> [j |-> "null"]
      [] x.t = "bool" -> [j |-> IF x.v = 1 THEN "true" ELSE "false"]
      [] x.t = "int" -> [j |-> "number", lit |-> "integer", v |-> x.v]
      [] x.t = "float" -> [j |-> "number", lit |-> "real", v |-> x.v]
      [] x.t = "str" -> [j |-> "string", s |-> x.s]

\* json.dump of a line item, of a list of them, of a value of the record.
DumpItem(x) ==
    IF IsDict(x) THEN [j |-> "object", members |-> [k \in DOMAIN x |-> DumpScalar(x[k])]]
    ELSE DumpScalar(x)
DumpValue(x) ==
    IF IsDict(x) THEN DumpItem(x)
    ELSE IF x.t = "list"
         THEN [j |-> "array", elems |-> [i \in 1..Len(x.items) |-> DumpItem(x.items[i])]]
         ELSE DumpScalar(x)
\* json.dump(data, f, indent=2): the complete text of the file.
JsonDump(data) ==
    IF IsDict(data)
    THEN [j |-> "object", members |-> [k \in DOMAIN data |-> DumpValue(data[k])]]
    ELSE DumpValue(data)

\* json.load of a scalar.
LoadScalar(jv) ==
    CASE jv.j = "null" -> PyNone
      [] jv.j = "true" -> PyBool(TRUE)
      [] jv.j = "false" -> PyBool(FALSE)
      [] jv.j = "number" -> IF jv.lit = "integer" THEN PyInt(jv.v) ELSE PyFloat(jv.v)
      [] jv.j = "string" -> PyStr(jv.s)

LoadItem(jv) ==
    IF jv.j = "object" THEN [k \in DOMAIN jv.members |-> LoadScalar(jv.members[k])]
    ELSE LoadScalar(jv)
LoadValue(jv) ==
    CASE jv.j = "object" -> LoadItem(jv)
      [] jv.j = "array" -> PyList([i \in 1..Len(jv.elems) |-> LoadItem(jv.elems[i])])
      [] OTHER -> LoadScalar(jv)
\* json.load(f) of a complete text.
JsonLoad(doc) ==
    IF doc.j = "object" THEN [k \in DOMAIN doc.members |-> LoadValue(doc.members[k])]
    ELSE LoadValue(doc)

\* The content of a directory entry: absent, a complete JSON text, or the
\* prefix of one that open(fp, "w") and an unfinished json.dump leave behind.
NoFile == [exists |-> FALSE]
Truncated == [exists |-> TRUE, complete |-> FALSE]
FileOf(doc) == [exists |-> TRUE, complete |-> TRUE, doc |-> doc]

\* ---------------------------------------------------------- normalisation
Min(S) == CHOOSE i \in S : \A j \in S : i <= j

\* `for x in c`: a list yields its elements; a string yields its characters
\* and a dict its keys (strings, stood for here by one string when there are
\* any); None and numbers are not iterable.
Iterate(c) ==
    IF IsDict(c)
    THEN PyList(IF DOMAIN c = {} THEN <<>> ELSE <<PyStr(CHOOSE k \in DOMAIN c : TRUE)>>)
    ELSE CASE c.t = "list" -> c
           [] c.t = "str" -> PyList(IF c.s = "" THEN <<>> ELSE <<PyStr(c.s)>>)
           [] OTHER -> Raised("TypeError")

\* The elements a comprehension goes through (none when iterating raises).
Elements(c) == IF IsRaised(Iterate(c)) THEN <<>> ELSE Iterate(c).items

\* [F(x) for x in c], given out = the F(x) in order: the list, or the first
\* exception raised on the way.
Comprehension(c, out) ==
    IF IsRaised(Iterate(c)) THEN Iterate(c)
    ELSE LET bad == {i \in 1..Len(out) : IsRaised(out[i])}
         IN IF bad = {} THEN PyList(out) ELSE out[Min(bad)]

\* x.get(...) on something that is no dict.
NoGet == Raised("AttributeError")

\* {"name": x.get("name", ""), "amount": float(x.get("amount", 0.0) or 0.0)}
IncomeItem(x) ==
    IF ~IsDict(x) THEN NoGet
    ELSE LET a == FloatField(x, "amount") IN
         IF IsRaised(a) THEN a
         ELSE [name |-> Get(x, "name", PyStr("")), amount |-> a]

\* float(x.get("amount") or x.get("actual", 0.0) or 0.0)
BillAmount(x) ==
    ToFloat(PyOr(PyOr(Get(x, "amount", PyNone), Get(x, "actual", PyFloat(0))), PyFloat(0)))

\* {"name": ..., "amount": <bill amount>, "paid": bool(x.get("paid", False))}
BillItem(x) ==
    IF ~IsDict(x) THEN NoGet
    ELSE LET a == BillAmount(x) IN
         IF IsRaised(a) THEN a
         ELSE [name |-> Get(x, "name", PyStr("")), amount |-> a,
               paid |-> PyBool(Truthy(Get(x, "paid", PyBool(FALSE))))]

\* {"name": x.get("name", ""), "spent": float(x.get("spent", 0.0) or 0.0)}
ExpenseItem(x) ==
    IF ~IsDict(x) THEN NoGet
    ELSE LET a == FloatField(x, "spent") IN
         IF IsRaised(a) THEN a
         ELSE [name |-> Get(x, "name", PyStr("")), spent |-> a]

\* {"name": x.get("name", ""), "saved": float(x.get("saved", 0.0) or 0.0)}
SavingsItem(x) ==
    IF ~IsDict(x) THEN NoGet
    ELSE LET a == FloatField(x, "saved") IN
         IF IsRaised(a) THEN a
         ELSE [name |-> Get(x, "name", PyStr("")), saved |-> a]

\* The "Normalize old data" branch of load_month_data, applied to the loaded
\* document d: the canonical record, or the first exception raised.
Normalize(d) ==
    IF ~IsDict(d) THEN NoGet
    ELSE LET rollover == FloatField(d, "rollover")
             debt == FloatField(d, "debt")
             income == LET c == Get(d, "income_items", PyList(<<>>)) IN
                 Comprehension(c, [i \in 1..Len(Elements(c)) |->
                                      IncomeItem(Elements(c)[i])])
             bills == LET c == Get(d, "bill_items", PyList(<<>>)) IN
                 Comprehension(c, [i \in 1..Len(Elements(c)) |->
                                      BillItem(Elements(c)[i])])
             expenses == LET c == Get(d, "expense_items", PyList(<<>>)) IN
                 Comprehension(c, [i \in 1..Len(Elements(c)) |->
                                      ExpenseItem(Elements(c)[i])])
             savings == LET c == Get(d, "savings_items", PyList(<<>>)) IN
                 Comprehension(c, [i \in 1..Len(Elements(c)) |->
                                      SavingsItem(Elements(c)[i])])
         IN CASE IsRaised(rollover) -> rollover
              [] IsRaised(debt) -> debt
              [] IsRaised(income) -> income
              [] IsRaised(bills) -> bills
              [] IsRaised(expenses) -> expenses
              [] IsRaised(savings) -> savings
              [] OTHER -> [rollover |-> rollover, debt |-> debt,
                           income_items |-> income, bill_items |-> bills,
                           expense_items |-> expenses, savings_items |-> savings]

\* load_month_data with the parse error swallowed: the default record
\* stands in for a file that cannot be parsed.
load_month_data_lenient(dir, month_ym) ==
    LET fp == dir[get_data_file(month_ym)] IN
    IF fp.exists /\ fp.complete /\ IsDict(JsonLoad(fp.doc))
    THEN Normalize(JsonLoad(fp.doc))
    ELSE default_month_data

\* load_month_data(month_ym) on directory dir: the record, or the exception.
load_month_data(dir, month_ym) ==
    LET fp == dir[get_data_file(month_ym)] IN
    IF fp.exists
    THEN IF ~fp.complete THEN Raised("JSONDecodeError")
         ELSE Normalize(JsonLoad(fp.doc))
    ELSE default_month_data

\* save_month_data writing the four item lists and not the two scalars.
save_month_data_items_only(dir, month_ym, data) ==
    [dir EXCEPT ![get_data_file(month_ym)] =
        FileOf(JsonDump([k \in DOMAIN data \ {"rollover", "debt"} |-> data[k]]))]

\* save_month_data(month_ym, data): the directory after open(fp, "w") and a
\* json.dump that ran to its end.
save_month_data(dir, month_ym, data) ==
    [dir EXCEPT ![get_data_file(month_ym)] = FileOf(JsonDump(data))]

\* The directory after open(fp, "w") when the process dies before json.dump
\* has written the whole text.
save_interrupted(dir, month_ym) ==
    [dir EXCEPT ![get_data_file(month_ym)] = Truncated]

\* ----------------------------------------------------------------- totals
RECURSIVE SumSeq(_)
\* Python's sum() over a sequence of numbers.
SumSeq(seq) == IF seq = <<>> THEN 0 ELSE Head(seq) + SumSeq(Tail(seq))

\* sum(float(x.get(k, 0.0) or 0.0) for x in data.get(coll, []))
SumField(data, coll, k) ==
    LET xs == Get(data, coll, PyList(<<>>)).items IN
    SumSeq([i \in 1..Len(xs) |-> FloatField(xs[i], k).v])

\* calculate_totals with the yearly row's formula for left: no rollover.
calculate_totals_no_rollover(data) ==
    LET total_income == SumField(data, "income_items", "amount")
        total_bills == SumField(data, "bill_items", "amount")
        total_expenses == SumField(data, "expense_items", "spent")
        total_savings == SumField(data, "savings_items", "saved")
        total_debt == FloatField(data, "debt").v
        rollover == FloatField(data, "rollover").v
    IN [income |-> total_income, bills |-> total_bills, expenses |-> total_expenses,
        savings |-> total_savings, debt |-> total_debt, rollover |-> rollover,
        left |-> total_income - total_expenses - total_bills
                 - total_savings - total_debt]

\* calculate_totals(data), for a record load_month_data returned.
calculate_totals(data) ==
    LET total_income == SumField(data, "income_items", "amount")
        total_bills == SumField(data, "bill_items", "amount")
        total_expenses == SumField(data, "expense_items", "spent")
        total_savings == SumField(data, "savings_items", "saved")
        total_debt == FloatField(data, "debt").v
        rollover == FloatField(data, "rollover").v
    IN [income |-> total_income, bills |-> total_bills, expenses |-> total_expenses,
        savings |-> total_savings, debt |-> total_debt, rollover |-> rollover,
        left |-> total_income + rollover - total_expenses - total_bills
                 - total_savings - total_debt]

\* ---------------------------------------------------------------- listing
\* Entries of the directory that are not the data file of any month: a
\* JSON file of another kind, backups of data files, a renamed data file.
StrayNames ==
    {<<"budget_", "notes", ".json">>,
     <<"budget_", "2024-02", ".json", ".bak", ".json">>,
     <<"budget_", "2025-01", ".json", ".bak">>,
     <<"old_", "budget_", "2024-01", ".json">>}
FileNames == {get_data_file(k) : k \in Keys} \cup StrayNames

\* The parts of a name that \d{4}-\d{2} matches.
IsMonthPattern(part) == part \in Keys
\* Ascending order of month keys, as sorted() puts them.
KeyOrder == <<"2024-01", "2024-02", "2025-01">>

\* DATA_DIR.glob("budget_*.json"): the name starts and ends as the pattern says.
GlobMatch(p) == Len(p) >= 2 /\ p[1] = "budget_" /\ p[Len(p)] = ".json"

\* Where re.findall(r"budget_(\d{4}-\d{2})\.json", p.name) finds a match:
\* anywhere in the name, the pattern is not anchored.
FindAll(p) ==
    {i \in 1..(Len(p) - 2) :
        p[i] = "budget_" /\ IsMonthPattern(p[i + 1]) /\ p[i + 2] = ".json"}

\* list_saved_months(): sorted(set(m[0] for each globbed name that matches)).
list_saved_months(dir) ==
    LET months == {p[Min(FindAll(p)) + 1] :
                     p \in {q \in DOMAIN dir : dir[q].exists /\ GlobMatch(q)
                                                 /\ FindAll(q) # {}}}
        Saved(k) == k \in months
    IN SelectSeq(KeyOrder, Saved)

\* ------------------------------------------------------------ aggregation
\* pd.DataFrame(rows)
DataFrame(rows) == [t |-> "DataFrame", rows |-> rows]

\* One row of aggregate_year for month ym with loaded record d.
YearRow(ym, d) ==
    LET income == SumField(d, "income_items", "amount")
        expenses == SumField(d, "expense_items", "spent")
        bills == SumField(d, "bill_items", "amount")
        saved == SumField(d, "savings_items", "saved")
        debt == FloatField(d, "debt").v
    IN [Month |-> ym, Income |-> income, Expenses |-> expenses, Bills |-> bills,
        Saved |-> saved, Debt |-> debt,
        Left |-> income - expenses - bills - saved - debt]

\* aggregate_year(year): the rows, or the exception a load raised.
aggregate_year(dir, year) ==
    LET InYear(m) == StartsWithYear(m, year)
        months == SelectSeq(list_saved_months(dir), InYear)
        loaded == [i \in 1..Len(months) |-> load_month_data(dir, months[i])]
        bad == {i \in 1..Len(months) : IsRaised(loaded[i])}
    IN IF bad # {} THEN loaded[Min(bad)]
       ELSE DataFrame([i \in 1..Len(months) |-> YearRow(months[i], loaded[i])])

\* ---------------------------------------------------------- script runs
\* One run of the script, top to bottom, is one step.  A run starts by
\* itself (a new session, st.rerun()) or because the user touched one
\* widget of the page the last run drew.  What a run only displays (the
\* charts, the CSV) is not state; the record it loaded and its totals are
\* kept in `data` and `totals`.
VARIABLES
    files,          \* budget_data/: file name -> content
    current_month,  \* st.session_state.current_month
    view_mode,      \* the View radio: "Month" or "Year"
    rerun,          \* st.rerun() was called: the script is about to run again
    run,            \* what the last script run did
    data,           \* the record the run loaded (PyNone when it loaded none)
    totals,         \* calculate_totals of that record (NoTotals when none)
    error           \* the exception that ended the run ("none" when none)

vars == <<files, current_month, view_mode, rerun, run, data, totals, error>>

NoTotals == [income |-> 0, bills |-> 0, expenses |-> 0, savings |-> 0,
             debt |-> 0, rollover |-> 0, left |-> 0]

\* What the last run drew: nothing (no run yet in this session), the header
\* (date input and View radio, lines 145-164), or the whole Month page with
\* its editors and buttons (lines 339-465).
Page ==
    CASE run \in {"init", "crash"} -> "none"
      [] run \in {"month", "save", "reset"} -> "month"
      [] run = "save_error" /\ view_mode = "Month" -> "month"
      [] OTHER -> "header"

\* The script starts with no widget touched.
Starts == rerun \/ Page = "none"
\* The user can touch the date input, the View radio or the Year box.
HeaderShown == ~rerun /\ Page # "none"
\* The user can touch an editor or a button of the Month page.
MonthPageShown == ~rerun /\ Page = "month"
\* The run's view mode is v: the radio as it was, or as the user set it.
CanView(v) == Starts => v = view_mode

\* What the user does to the editors of the Month page in one run: nothing,
\* or a new amount in the first row of the income editor.
Edits ==
    {[kind |-> "none", v |-> 0]} \cup {[kind |-> "income", v |-> a] : a \in 1..MaxAmt}

\* `data` after the number inputs and the data editors have been read back.
ApplyEdit(d, e) ==
    IF e.kind = "income" /\ Len(d.income_items.items) > 0
    THEN [d EXCEPT !.income_items.items[1].amount = PyFloat(e.v)]
    ELSE d

\* The Reset handler with the unlink left out.
reset_month_keeps_file(dir, month_ym) == dir

\* fp = get_data_file(month); if fp.exists(): fp.unlink()
reset_month(dir, month_ym) ==
    IF dir[get_data_file(month_ym)].exists
    THEN [dir EXCEPT ![get_data_file(month_ym)] = NoFile]
    ELSE dir

\* sorted({int(m.split("-")[0]) for m in saved_months} | {current_year})
available_years(months, month_ym) ==
    {YearOf(months[i]) : i \in 1..Len(months)} \cup {YearOf(month_ym)}

\* The Year box holds y: the current year by default, another available
\* year once the user has picked it on a Year page.
CanSelectYear(y) ==
    /\ y \in available_years(list_saved_months(files), current_month)
    /\ y # YearOf(current_month) => (view_mode = "Year" /\ HeaderShown)

\* A data file whose text is valid JSON and no object: [].
NotARecord == FileOf(JsonDump(PyList(<<>>)))

\* The first session: an empty data directory, or one that also holds
\* entries that are no month's data file, or one month's file that is no
\* record; the session starts in any month, in the Month view.
Init ==
    /\ \E strays \in {{}, StrayNames}, foreign \in {{}, {get_data_file("2024-02")}} :
          /\ strays = {} \/ foreign = {}
          /\ files = [p \in FileNames |->
                        IF p \in strays THEN FileOf([j |-> "null"])
                        ELSE IF p \in foreign THEN NotARecord ELSE NoFile]
    /\ current_month \in Keys
    /\ view_mode = "Month"
    /\ rerun = FALSE
    /\ run = "init"
    /\ data = PyNone
    /\ totals = NoTotals
    /\ error = "none"

\* The date input holds another month: current_month is set and the script
\* reruns before anything is loaded (lines 148-155).
RunDateChange(m) ==
    /\ HeaderShown
    /\ m # current_month
    /\ current_month' = m
    /\ rerun' = TRUE
    /\ run' = "date"
    /\ error' = "none"
    /\ data' = PyNone /\ totals' = NoTotals
    /\ UNCHANGED <<files, view_mode>>

\* load_month_data raises: the run ends at line 173 with the exception shown.
RunLoadError(v) ==
    LET d == load_month_data(files, current_month) IN
    /\ CanView(v)
    /\ IsRaised(d)
    /\ view_mode' = v
    /\ rerun' = FALSE
    /\ run' = "load_error"
    /\ error' = d.s
    /\ data' = PyNone /\ totals' = NoTotals
    /\ UNCHANGED <<files, current_month>>

\* The Year view, aggregate_year raising: the run ends at line 186.
RunYearError(y) ==
    LET d == load_month_data(files, current_month)
        year_df == aggregate_year(files, y)
    IN /\ CanView("Year")
       /\ CanSelectYear(y)
       /\ ~IsRaised(d)
       /\ IsRaised(year_df)
       /\ view_mode' = "Year"
       /\ rerun' = FALSE
       /\ run' = "year_error"
       /\ error' = year_df.s
       /\ data' = d /\ totals' = NoTotals
       /\ UNCHANGED <<files, current_month>>

\* The Year view to the end of the script: no editor is shown, and the
\* last statement saves the loaded record (line 468).
RunYear(y) ==
    LET d == load_month_data(files, current_month)
        year_df == aggregate_year(files, y)
    IN /\ CanView("Year")
       /\ CanSelectYear(y)
       /\ ~IsRaised(d)
       /\ ~IsRaised(year_df)
       /\ view_mode' = "Year"
       /\ rerun' = FALSE
       /\ run' = "year"
       /\ error' = "none"
       /\ data' = d /\ totals' = calculate_totals(d)
       /\ files' = save_month_data(files, current_month, d)
       /\ UNCHANGED current_month

\* The Month view with no button pressed (or Export CSV, which changes no
\* state): the edits are read back and the last statement saves them.
RunMonth(e) ==
    LET d == load_month_data(files, current_month) IN
    /\ CanView("Month")
    /\ e.kind # "none" => MonthPageShown
    /\ ~IsRaised(d)
    /\ view_mode' = "Month"
    /\ rerun' = FALSE
    /\ run' = "month"
    /\ error' = "none"
    /\ data' = d /\ totals' = calculate_totals(d)
    /\ files' = save_month_data(files, current_month, ApplyEdit(d, e))
    /\ UNCHANGED current_month

\* The Save button: save_month_data, then st.rerun() (lines 431-434).
RunSaveButton ==
    LET d == load_month_data(files, current_month) IN
    /\ MonthPageShown
    /\ ~IsRaised(d)
    /\ rerun' = TRUE
    /\ run' = "save"
    /\ error' = "none"
    /\ data' = d /\ totals' = calculate_totals(d)
    /\ files' = save_month_data(files, current_month, d)
    /\ UNCHANGED <<current_month, view_mode>>

\* The Reset button: the month's file is unlinked if it exists, then
\* st.rerun() (lines 460-465).
RunResetButton ==
    LET d == load_month_data(files, current_month) IN
    /\ MonthPageShown
    /\ ~IsRaised(d)
    /\ rerun' = TRUE
    /\ run' = "reset"
    /\ error' = "none"
    /\ data' = d /\ totals' = calculate_totals(d)
    /\ files' = reset_month(files, current_month)
    /\ UNCHANGED <<current_month, view_mode>>

\* The run reaches a save_month_data: the auto-save of either view, or the
\* Save button's.
ReachesSave(v) ==
    /\ CanView(v)
    /\ ~IsRaised(load_month_data(files, current_month))
    /\ v = "Year" => ~IsRaised(aggregate_year(files, YearOf(current_month)))

\* The process dies inside save_month_data, after open(fp, "w") and before
\* json.dump has finished; the next session starts in the month of its day,
\* in the Month view.
RunCrashInSave(v, m) ==
    /\ ReachesSave(v)
    /\ view_mode' = "Month"
    /\ rerun' = FALSE
    /\ run' = "crash"
    /\ error' = "none"
    /\ data' = PyNone /\ totals' = NoTotals
    /\ files' = save_interrupted(files, current_month)
    /\ current_month' = m

\* open(fp, "w") raises OSError (the storage is unwritable): the run ends
\* there, after its page has been drawn, and nothing is written.
RunSaveRaises(v) ==
    LET d == load_month_data(files, current_month) IN
    /\ ReachesSave(v)
    /\ view_mode' = v
    /\ rerun' = FALSE
    /\ run' = "save_error"
    /\ error' = "OSError"
    /\ data' = d /\ totals' = calculate_totals(d)
    /\ UNCHANGED <<files, current_month>>

Views == {"Month", "Year"}

Next ==
    \/ \E m \in Keys : RunDateChange(m)
    \/ \E v \in Views : RunLoadError(v)
    \/ \E y \in {YearOf(k) : k \in Keys} : RunYearError(y)
    \/ \E y \in {YearOf(k) : k \in Keys} : RunYear(y)
    \/ \E e \in Edits : RunMonth(e)
    \/ RunSaveButton
    \/ RunResetButton
    \/ \E v \in Views, m \in Keys : RunCrashInSave(v, m)
    \/ \E v \in Views : RunSaveRaises(v)

Spec == Init /\ [][Next]_vars

\* ------------------------------------------------- generated raw records
\* A key the raw item does not have.
Missing == [t |-> "missing"]
\* The dict holding the keys of `full` that are not Missing.
MakeDict(full) == [k \in {q \in DOMAIN full : full[q] # Missing} |-> full[k]]

\* What a stored numeric field may hold: nothing, null, "", a word, a
\* numeral, a number.
RawScalars ==
    {Missing, PyNone, PyStr(""), PyStr("abc"), PyStr(ToString(MaxAmt)), PyFloat(MaxAmt)}
    \cup {PyInt(n) : n \in 0..MaxAmt}

\* Sequences over S of length at most n.
SeqsUpTo(S, n) == UNION {[1..m -> S] : m \in 0..n}

\* Raw records with one bill, in every combination of amount, legacy
\* actual and paid.
RawBillRecords ==
    {[bill_items |-> PyList(<<MakeDict([name |-> PyStr("Rent"), amount |-> a,
                                        actual |-> b, paid |-> c])>>)] :
        a \in RawScalars,
        b \in {Missing, PyNone, PyInt(0), PyInt(MaxAmt), PyStr("abc")},
        c \in {Missing, PyNone, PyBool(TRUE), PyBool(FALSE)}}

\* Raw records with up to MaxItems income items.
RawIncomeRecords ==
    {[income_items |-> PyList(items)] :
        items \in SeqsUpTo({MakeDict([name |-> PyStr("Pay"), amount |-> a]) :
                              a \in {Missing, PyNone, PyStr("abc")}
                                    \cup {PyInt(n) : n \in 0..MaxAmt}}, MaxItems)}

\* Raw records with one expense or one savings item, or only the scalars.
RawOtherRecords ==
    {[expense_items |-> PyList(<<MakeDict([name |-> Missing, spent |-> a])>>)] :
        a \in RawScalars}
    \cup {[savings_items |-> PyList(<<MakeDict([name |-> PyNone, saved |-> a])>>)] :
        a \in RawScalars}
    \cup {MakeDict([rollover |-> r, debt |-> d]) :
        r \in RawScalars \cup {PyInt(-1)}, d \in {Missing, PyInt(MaxAmt)}}

\* Stored documents of another shape: no dict at the top, a collection that
\* is no list, an item that is no dict.
RawMalformed ==
    {PyList(<<>>), PyNone,
     [income_items |-> PyNone], [bill_items |-> PyStr("")],
     [expense_items |-> PyStr("abc")], [savings_items |-> PyInt(1)],
     [bill_items |-> PyList(<<PyInt(1)>>)],
     [income_items |-> PyList(<<PyNone>>)]}

\* Records with every collection filled.
RawFullRecords ==
    {[rollover |-> PyInt(r), debt |-> PyFloat(d),
      income_items |-> PyList(<<[name |-> PyStr("Pay"), amount |-> PyFloat(a)]>>),
      bill_items |-> PyList(<<[name |-> PyStr("Rent"), amount |-> PyFloat(b),
                               paid |-> PyBool(TRUE)]>>),
      expense_items |-> PyList(<<[name |-> PyStr("Food"), spent |-> PyFloat(c)],
                                 [name |-> PyStr("Bus"), spent |-> PyFloat(1)]>>),
      savings_items |-> PyList(<<[name |-> PyStr("Fund"), saved |-> PyFloat(e)]>>)] :
        r \in {-1, MaxAmt}, d \in {0, 1}, a \in {0, MaxAmt}, b \in {0, MaxAmt},
        c \in {0, MaxAmt}, e \in {0, MaxAmt}}

\* The worked example of the totals.
ExampleRecord ==
    [rollover |-> PyFloat(50), debt |-> PyFloat(100),
     income_items |-> PyList(<<[name |-> PyStr("Paycheck"), amount |-> PyFloat(3000)]>>),
     bill_items |-> PyList(<<[name |-> PyStr("Rent"), amount |-> PyFloat(1200),
                              paid |-> PyBool(FALSE)]>>),
     expense_items |-> PyList(<<[name |-> PyStr("Groceries"), spent |-> PyFloat(400)]>>),
     savings_items |-> PyList(<<[name |-> PyStr("Emergency"), saved |-> PyFloat(200)]>>)]

RawRecords ==
    RawBillRecords \cup RawIncomeRecords \cup RawOtherRecords \cup RawMalformed
    \cup RawFullRecords \cup {ExampleRecord}

\* ------------------------------------- load, save and load again, alone
\* The month whose file holds the generated record.
NormKey == "2024-01"

\* The document stored for NormKey.
StoredRaw == JsonLoad(files[get_data_file(NormKey)].doc)

InitNorm ==
    /\ \E r \in RawRecords :
          files = [p \in FileNames |-> IF p = get_data_file(NormKey)
                                        THEN FileOf(JsonDump(r)) ELSE NoFile]
    /\ current_month = NormKey
    /\ view_mode = "Month"
    /\ rerun = FALSE
    /\ run = "stored"
    /\ data = PyNone
    /\ totals = NoTotals
    /\ error = "none"

\* load_month_data of the stored record, and calculate_totals of the result.
NormLoad ==
    LET d == load_month_data(files, current_month) IN
    /\ run = "stored"
    /\ run' = IF IsRaised(d) THEN "raised" ELSE "normalized"
    /\ error' = IF IsRaised(d) THEN d.s ELSE "none"
    /\ data' = IF IsRaised(d) THEN PyNone ELSE d
    /\ totals' = IF IsRaised(d) THEN NoTotals ELSE calculate_totals(d)
    /\ UNCHANGED <<files, current_month, view_mode, rerun>>

\* save_month_data of the normalised record.
NormSave ==
    /\ run = "normalized"
    /\ run' = "saved"
    /\ files' = save_month_data(files, current_month, data)
    /\ UNCHANGED <<current_month, view_mode, rerun, data, totals, error>>

\* load_month_data of what was saved.
NormReload ==
    LET d == load_month_data(files, current_month) IN
    /\ run = "saved"
    /\ run' = "reloaded"
    /\ error' = IF IsRaised(d) THEN d.s ELSE "none"
    /\ data' = IF IsRaised(d) THEN PyNone ELSE d
    /\ UNCHANGED <<files, current_month, view_mode, rerun, totals>>

NextNorm == NormLoad \/ NormSave \/ NormReload

SpecNorm == InitNorm /\ [][NextNorm]_vars

\* ------------------------------------------------------------------ claims
Years == {YearOf(k) : k \in Keys}
\* Month k has a stored record: its own data file exists.
Stored(dir, k) == dir[get_data_file(k)].exists
\* A stored unit that exists and cannot be parsed into a record: its text
\* is cut short, or is no JSON object.
Corrupt(f) == f.exists /\ (~f.complete \/ f.doc.j # "object")

\* The sum of field k over the items of collection coll, with no coercion.
PlainSum(d, coll, k) ==
    SumSeq([i \in 1..Len(d[coll].items) |-> d[coll].items[i][k].v])

\* C1: the totals of a month record are the plain sums of its collections'
\* amount fields, debt and rollover are copied from the record, and
\* left = income + rollover - expenses - bills - savings - debt; the worked
\* example gives left 1150.
C1_TotalsArePlainSums ==
    run = "normalized" =>
        /\ totals.income = PlainSum(data, "income_items", "amount")
        /\ totals.bills = PlainSum(data, "bill_items", "amount")
        /\ totals.expenses = PlainSum(data, "expense_items", "spent")
        /\ totals.savings = PlainSum(data, "savings_items", "saved")
        /\ totals.debt = data.debt.v
        /\ totals.rollover = data.rollover.v
        /\ totals.left = PlainSum(data, "income_items", "amount") + data.rollover.v
                         - PlainSum(data, "expense_items", "spent")
                         - PlainSum(data, "bill_items", "amount")
                         - PlainSum(data, "savings_items", "saved") - data.debt.v
        /\ (StoredRaw = ExampleRecord =>
                totals = [income |-> 3000, bills |-> 1200, expenses |-> 400,
                          savings |-> 200, debt |-> 100, rollover |-> 50,
                          left |-> 1150])

\* The totals of the worked example have been computed.
C1_Witness ==
    run = "normalized" /\ StoredRaw = ExampleRecord /\ totals.left = 1150

\* The month keys that have a stored record in year y, ascending.
StoredInYear(dir, y) ==
    LET Has(k) == Stored(dir, k) /\ YearOf(k) = y IN SelectSeq(KeyOrder, Has)

\* C2: whenever aggregate_year returns, it holds exactly one row per stored
\* month key of the year, ascending, with that month's sums and
\* left = income - expenses - bills - saved - debt.
C2_YearRowsAreStoredMonths ==
    \A y \in Years :
        LET year_df == aggregate_year(files, y)
            months == StoredInYear(files, y)
        IN ~IsRaised(year_df) =>
              /\ Len(year_df.rows) = Len(months)
              /\ \A i \in 1..Len(months) :
                    LET t == calculate_totals(load_month_data(files, months[i]))
                        row == year_df.rows[i]
                    IN /\ row.Month = months[i]
                       /\ row.Income = t.income /\ row.Expenses = t.expenses
                       /\ row.Bills = t.bills /\ row.Saved = t.savings
                       /\ row.Debt = t.debt
                       /\ row.Left = t.income - t.expenses - t.bills - t.savings - t.debt

\* A stored numeric field that is missing, null or non-numeric.
Unusable(x, k) ==
    \/ k \notin DOMAIN x
    \/ x[k].t = "NoneType"
    \/ x[k].t = "str" /\ ~IsNumeral(x[k].s)

\* C3: normalisation never raises, and in the record it returns every
\* missing, null or non-numeric amount is 0.0 and every missing paid false.
C3_NormalizeIsTotal ==
    /\ run # "raised"
    /\ run = "normalized" =>
          LET raw_income == Iterate(Get(StoredRaw, "income_items", PyList(<<>>))).items
              raw_bills == Iterate(Get(StoredRaw, "bill_items", PyList(<<>>))).items
          IN /\ \A i \in 1..Len(raw_income) :
                    Unusable(raw_income[i], "amount") =>
                        data.income_items.items[i].amount = PyFloat(0)
             /\ \A i \in 1..Len(raw_bills) :
                    "paid" \notin DOMAIN raw_bills[i] =>
                        data.bill_items.items[i].paid = PyBool(FALSE)

\* C4: loading what save_month_data wrote for a normalised record gives
\* that record again, field by field.
C4_RoundTrip ==
    [][(run = "saved" /\ run' = "reloaded") => (error' = "none" /\ data' = data)]_vars

\* A record with a paid bill of a non-zero amount has gone through save and load.
C4_Witness ==
    /\ run = "reloaded"
    /\ ~IsRaised(data) /\ IsDict(data)
    /\ Len(data.bill_items.items) = 1
    /\ data.bill_items.items[1].paid = PyBool(TRUE)
    /\ data.bill_items.items[1].amount = PyFloat(MaxAmt)
    /\ data.rollover = PyFloat(-1)

\* C5: no run changes a stored unit that cannot be parsed; a run that ends
\* with an exception writes nothing; and a run that loads the current month
\* while its unit cannot be parsed ends with the exception and no record.
C5_FailedLoadLeavesStoreAlone ==
    [][/\ \A p \in FileNames : Corrupt(files[p]) => files'[p] = files[p]
       /\ error' # "none" => files' = files
       /\ (Corrupt(files[get_data_file(current_month)]) /\ run' # "date") =>
             /\ error' \in {"JSONDecodeError", "AttributeError"}
             /\ data' = PyNone
             /\ files' = files]_vars

\* A run has ended with the parse error of the current month's unit, which
\* a crashed save had cut short, while another month's record is stored.
C5_Witness ==
    /\ run = "load_error" /\ error = "JSONDecodeError"
    /\ Corrupt(files[get_data_file(current_month)])
    /\ \E k \in Keys : Stored(files, k) /\ ~Corrupt(files[get_data_file(k)])

\* C6: no stored unit is ever an empty or partially written file.
C6_SaveIsAtomic ==
    \A k \in Keys : Stored(files, k) => files[get_data_file(k)].complete

\* C7: a stored record for a month comes into existence only by the Save
\* button.
C7_StoredOnlyByExplicitSave ==
    [][\A k \in Keys : (~Stored(files, k) /\ Stored(files', k)) => run' = "save"]_vars

\* The names of the items of a list.
Names(list) == [i \in 1..Len(list.items) |-> list.items[i].name.s]

\* The default record, written out: the starter items, every amount 0.
IsStarterRecord(d) ==
    /\ IsDict(d)
    /\ d.rollover = PyFloat(0) /\ d.debt = PyFloat(0)
    /\ Names(d.income_items) = <<"Paycheck">>
    /\ Names(d.bill_items) = <<"Rent/Mortgage", "Utilities", "Internet">>
    /\ Names(d.expense_items) = <<"Groceries", "Dining Out", "Transportation">>
    /\ Names(d.savings_items) = <<"Emergency Fund", "Retirement">>
    /\ \A i \in 1..1 : d.income_items.items[i].amount = PyFloat(0)
    /\ \A i \in 1..3 : /\ d.bill_items.items[i].amount = PyFloat(0)
                       /\ d.bill_items.items[i].paid = PyBool(FALSE)
    /\ \A i \in 1..3 : d.expense_items.items[i].spent = PyFloat(0)
    /\ \A i \in 1..2 : d.savings_items.items[i].saved = PyFloat(0)

\* C8: the Reset button leaves the current month with no stored record and
\* every other entry as it was (the whole directory when the month had
\* none), and the load that follows returns the default record.
C8_ResetThenLoadIsDefault ==
    [][run' = "reset" =>
          /\ files' = [files EXCEPT ![get_data_file(current_month)] = NoFile]
          /\ (~Stored(files, current_month) => files' = files)
          /\ ~Stored(files', current_month')
          /\ IsStarterRecord(load_month_data(files', current_month'))]_vars

\* Reset has just removed the current month's record, another month's is kept.
C8_Witness ==
    /\ run = "reset"
    /\ ~Stored(files, current_month)
    /\ \E k \in Keys : Stored(files, k)

\* C9: list_saved_months returns a month key exactly when that key's data
\* file exists.
C9_ListedIffStored ==
    \A k \in Keys :
        (\E i \in 1..Len(list_saved_months(files)) : list_saved_months(files)[i] = k)
            <=> Stored(files, k)

\* A stored value float() accepts: a number or a numeral.
Usable(x, k) == k \in DOMAIN x /\ ~IsRaised(ToFloat(x[k])) /\ x[k].t # "bool"

\* C10: a normalised bill carries the raw item's own amount when it has a
\* usable one, else its legacy actual when that is usable, else 0.
C10_BillAmountPrefersAmount ==
    run = "normalized" =>
        LET raw_bills == Iterate(Get(StoredRaw, "bill_items", PyList(<<>>))).items IN
        \A i \in 1..Len(raw_bills) :
            data.bill_items.items[i].amount =
                IF Usable(raw_bills[i], "amount") THEN ToFloat(raw_bills[i].amount)
                ELSE IF Usable(raw_bills[i], "actual") THEN ToFloat(raw_bills[i].actual)
                ELSE PyFloat(0)

=============================================================================
